---- MODULE Spec2Model ----
(***************************************************************************)
(* Model of the word-frequency analyzer of src/utils/WordAnalyzer.js and   *)
(* of the way src/tests/blog.spec.js drives it.                            *)
(*                                                                         *)
(* A JavaScript string is a sequence of characters, each character a       *)
(* one-element TLA+ string; a few non-ASCII characters are written by      *)
(* their code point ("U+0130").  Text that no code looks inside (a title,  *)
(* a literal of the report template, the source text of a built-in         *)
(* function) is kept as one element of the sequence.                       *)
(***************************************************************************)
EXTENDS Integers, Sequences, FiniteSets, TLC

VARIABLES stopWords, text, words, articles, call, analysis, report,
          articleLinks, loopIndex, history

vars == <<stopWords, text, words, articles, call, analysis, report,
          articleLinks, loopIndex, history>>

(***************************************************************************)
(* Bounds of the model.                                                    *)
(***************************************************************************)
MaxChars == 3
MaxPieces == 3
MaxWords == 3
MaxDocs == 3

(***************************************************************************)
(* JavaScript values.                                                      *)
(***************************************************************************)
JsUndefined == [t |-> "undefined", n |-> 0, s |-> <<>>]
JsNull == [t |-> "null", n |-> 0, s |-> <<>>]
JsNum(k) == [t |-> "number", n |-> k, s |-> <<>>]
JsStr(str) == [t |-> "string", n |-> 0, s |-> str]
\* The function Object, which every plain object inherits as "constructor".
JsObjectFunction == [t |-> "function", n |-> 0, s |-> <<>>]
\* Object.prototype, which every plain object answers for "__proto__"; also
\* stands for any other object handed in where a string is expected.
JsObjectPrototype == [t |-> "object", n |-> 0, s |-> <<>>]

\* ToBoolean: what `!v` and `v || d` test.
Truthy(v) ==
    CASE v.t = "undefined" -> FALSE
      [] v.t = "null" -> FALSE
      [] v.t = "number" -> v.n # 0
      [] v.t = "string" -> v.s # <<>>
      [] OTHER -> TRUE

\* v || d
JsOr(v, d) == IF Truthy(v) THEN v ELSE d

\* A call either returns a value or throws.
Return(v) == [threw |-> "", val |-> v]
Throw(e) == [threw |-> e, val |-> <<>>]

(***************************************************************************)
(* Characters and the character classes of the regular expressions.        *)
(***************************************************************************)
LowerLetters ==
    <<"a","b","c","d","e","f","g","h","i","j","k","l","m",
      "n","o","p","q","r","s","t","u","v","w","x","y","z">>
UpperLetters ==
    <<"A","B","C","D","E","F","G","H","I","J","K","L","M",
      "N","O","P","Q","R","S","T","U","V","W","X","Y","Z">>
DigitChars == <<"0","1","2","3","4","5","6","7","8","9">>

Range(f) == {f[i] : i \in DOMAIN f}

\* \d
IsDigit(c) == c \in Range(DigitChars)
\* \w
IsWordChar(c) ==
    c \in Range(LowerLetters) \cup Range(UpperLetters) \cup Range(DigitChars) \cup {"_"}
\* \s (space, tab, line feed, carriage return, no-break space)
IsWhiteSpace(c) == c \in {" ", "\t", "\n", "\r", "U+00A0"}

\* String.prototype.toLowerCase on one character.  U+00C9 is E-acute, U+0130
\* the dotted capital I (which lowers to i and a combining dot, U+0307) and
\* U+212A the Kelvin sign (which lowers to the ASCII k).
CharToLower(c) ==
    IF c \in Range(UpperLetters)
    THEN <<LowerLetters[CHOOSE i \in DOMAIN UpperLetters : UpperLetters[i] = c]>>
    ELSE CASE c = "U+00C9" -> <<"U+00E9">>
           [] c = "U+0130" -> <<"i", "U+0307">>
           [] c = "U+212A" -> <<"k">>
           [] OTHER -> <<c>>

RECURSIVE toLowerCase(_)
toLowerCase(s) ==
    IF s = <<>> THEN <<>>
    ELSE IF Len(s) = 1 THEN CharToLower(s[1])
    ELSE LET half == Len(s) \div 2
         IN toLowerCase(SubSeq(s, 1, half)) \o toLowerCase(SubSeq(s, half + 1, Len(s)))

\* .replace(/[^\w\s]/g, ' ')
replacePunctuation(s) ==
    [i \in DOMAIN s |-> IF IsWordChar(s[i]) \/ IsWhiteSpace(s[i]) THEN s[i] ELSE " "]

\* .replace(/\s+/g, ' '): every maximal run of white space becomes one space,
\* so of a run only its first character is kept, as a space.
StartsRun(s, i) == IsWhiteSpace(s[i]) /\ (i = 1 \/ ~IsWhiteSpace(s[i - 1]))
EndsRun(s, i) == IsWhiteSpace(s[i]) /\ (i = Len(s) \/ ~IsWhiteSpace(s[i + 1]))
Positions(s) == [i \in DOMAIN s |-> i]

collapseWhiteSpace(s) ==
    LET Kept(i) == ~IsWhiteSpace(s[i]) \/ StartsRun(s, i)
        kept == SelectSeq(Positions(s), Kept)
    IN [k \in DOMAIN kept |-> IF IsWhiteSpace(s[kept[k]]) THEN " " ELSE s[kept[k]]]

\* .trim()
RECURSIVE trimStart(_)
trimStart(s) ==
    IF s # <<>> /\ IsWhiteSpace(Head(s)) THEN trimStart(Tail(s)) ELSE s

RECURSIVE trimEnd(_)
trimEnd(s) ==
    IF s # <<>> /\ IsWhiteSpace(s[Len(s)])
    THEN trimEnd(SubSeq(s, 1, Len(s) - 1))
    ELSE s

\* Mutant: only the end is trimmed.
trimEndOnly(s) == trimEnd(s)
trim(s) == trimEnd(trimStart(s))

\* cleanText(text)
cleanText(t) ==
    IF ~Truthy(t) THEN Return(<<>>)
    ELSE IF t.t # "string" THEN Throw("TypeError")
    ELSE Return(trim(collapseWhiteSpace(replacePunctuation(toLowerCase(t.s)))))

(***************************************************************************)
(* The stop words of the constructor.                                      *)
(***************************************************************************)
StopWordList ==
    {<<"t","h","e">>, <<"a">>, <<"a","n">>, <<"a","n","d">>, <<"o","r">>, <<"b","u","t">>, <<"i","n">>, <<"o","n">>, <<"a","t">>, <<"t","o">>, <<"f","o","r">>, <<"o","f">>, <<"w","i","t","h">>, <<"b","y">>,
     <<"i","s">>, <<"a","r","e">>, <<"w","a","s">>, <<"w","e","r","e">>, <<"b","e">>, <<"b","e","e","n">>, <<"b","e","i","n","g">>, <<"h","a","v","e">>, <<"h","a","s">>, <<"h","a","d">>, <<"d","o">>, <<"d","o","e","s">>, <<"d","i","d">>,
     <<"w","i","l","l">>, <<"w","o","u","l","d">>, <<"c","o","u","l","d">>, <<"s","h","o","u","l","d">>, <<"m","a","y">>, <<"m","i","g","h","t">>, <<"m","u","s","t">>, <<"c","a","n">>, <<"t","h","i","s">>, <<"t","h","a","t">>, <<"t","h","e","s","e">>,
     <<"t","h","o","s","e">>, <<"i">>, <<"y","o","u">>, <<"h","e">>, <<"s","h","e">>, <<"i","t">>, <<"w","e">>, <<"t","h","e","y">>, <<"m","e">>, <<"h","i","m">>, <<"h","e","r">>, <<"u","s">>, <<"t","h","e","m">>,
     <<"m","y">>, <<"y","o","u","r">>, <<"h","i","s">>, <<"h","e","r">>, <<"i","t","s">>, <<"o","u","r">>, <<"t","h","e","i","r">>, <<"f","r","o","m">>, <<"u","p">>, <<"a","b","o","u","t">>, <<"i","n","t","o">>, <<"o","v","e","r">>,
     <<"a","f","t","e","r">>, <<"a","l","l">>, <<"a","n","y">>, <<"b","o","t","h">>, <<"e","a","c","h">>, <<"f","e","w">>, <<"m","o","r","e">>, <<"m","o","s","t">>, <<"o","t","h","e","r">>, <<"s","o","m","e">>, <<"s","u","c","h">>,
     <<"n","o">>, <<"n","o","r">>, <<"n","o","t">>, <<"o","n","l","y">>, <<"o","w","n">>, <<"s","a","m","e">>, <<"s","o">>, <<"t","h","a","n">>, <<"t","o","o">>, <<"v","e","r","y">>, <<"j","u","s","t">>, <<"n","o","w">>,
     <<"h","e","r","e">>, <<"t","h","e","r","e">>, <<"w","h","e","n">>, <<"w","h","e","r","e">>, <<"w","h","y">>, <<"h","o","w">>, <<"w","h","a","t">>, <<"w","h","i","c","h">>, <<"w","h","o">>, <<"w","h","o","m">>, <<"w","h","o","s","e">>,
     <<"i","f">>, <<"b","e","c","a","u","s","e">>, <<"a","s">>, <<"u","n","t","i","l">>, <<"w","h","i","l","e">>, <<"t","h","r","o","u","g","h">>, <<"d","u","r","i","n","g">>, <<"b","e","f","o","r","e">>, <<"a","f","t","e","r">>, <<"a","b","o","v","e">>,
     <<"b","e","l","o","w">>, <<"b","e","t","w","e","e","n">>, <<"a","m","o","n","g">>, <<"t","h","r","o","u","g","h">>, <<"d","u","r","i","n","g">>, <<"b","e","f","o","r","e">>, <<"a","f","t","e","r">>, <<"a","b","o","v","e">>, <<"b","e","l","o","w">>}

\* .split(/\s+/): the pieces between the maximal runs of white space; a run at
\* the start or the end of the string leaves an empty piece there.
split(s) ==
    LET StartsHere(i) == StartsRun(s, i)
        EndsHere(i) == EndsRun(s, i)
        starts == SelectSeq(Positions(s), StartsHere)
        ends == SelectSeq(Positions(s), EndsHere)
    IN [k \in 1..(Len(starts) + 1) |->
           SubSeq(s, IF k = 1 THEN 1 ELSE ends[k - 1] + 1,
                     IF k = Len(starts) + 1 THEN Len(s) ELSE starts[k] - 1)]

\* /^\d+$/.test(word)
IsNumeric(word) == word # <<>> /\ \A i \in DOMAIN word : IsDigit(word[i])

\* Mutant: the boundary moved to "longer than 3".
LongerThanThree(word) == Len(word) > 3
LongEnough(word) == Len(word) >= 3
\* Mutant: an analyzer that remembers the words it has extracted and leaves
\* them out the next time.
NotStopWordNorSeen(word) ==
    /\ word \notin stopWords
    /\ ~\E k \in DOMAIN history :
           /\ history[k].op = "extractWords"
           /\ history[k].threw = ""
           /\ \E i \in DOMAIN history[k].val : history[k].val[i] = word
NotStopWord(word) == word \notin stopWords
NotNumeric(word) == ~IsNumeric(word)
NotBlank(word) == Len(trim(word)) > 0

\* extractWords(text)
extractWords(t) ==
    LET cleanedText == cleanText(t) IN
    IF cleanedText.threw # "" THEN cleanedText
    ELSE IF cleanedText.val = <<>> THEN Return(<<>>)
    ELSE Return(SelectSeq(SelectSeq(SelectSeq(SelectSeq(split(cleanedText.val),
                    LongEnough), NotStopWord), NotNumeric), NotBlank))

(***************************************************************************)
(* Plain objects used as frequency tables.  An object is the sequence of   *)
(* its own properties in the order of their creation; what it does not     *)
(* own it inherits from Object.prototype.  Of the names Object.prototype   *)
(* defines, "constructor" and "__proto__" are the two that a lower-case    *)
(* token can spell.                                                        *)
(***************************************************************************)
Constructor == <<"c","o","n","s","t","r","u","c","t","o","r">>
Proto == <<"_","_","p","r","o","t","o","_","_">>

OwnIndex(obj, key) ==
    IF \E i \in DOMAIN obj : obj[i].key = key
    THEN CHOOSE i \in DOMAIN obj : obj[i].key = key
    ELSE 0

\* obj[key]
Get(obj, key) ==
    LET own == OwnIndex(obj, key) IN
    IF own # 0 THEN obj[own].val
    ELSE IF key = Constructor THEN JsObjectFunction
    ELSE IF key = Proto THEN JsObjectPrototype
    ELSE JsUndefined

\* obj[key] = v.  Assigning to "__proto__" runs the inherited setter, which
\* ignores a value that is neither an object nor null and never creates an
\* own property.
Put(obj, key, v) ==
    LET own == OwnIndex(obj, key) IN
    IF key = Proto THEN obj
    ELSE IF own # 0
         THEN [obj EXCEPT ![own].val = v]
         ELSE Append(obj, [key |-> key, val |-> v])

RECURSIVE ToDecimal(_)
ToDecimal(k) ==
    IF k < 10 THEN <<DigitChars[k + 1]>>
    ELSE ToDecimal(k \div 10) \o <<DigitChars[(k % 10) + 1]>>

RECURSIVE FromDecimal(_)
FromDecimal(s) ==
    IF s = <<>> THEN 0
    ELSE 10 * FromDecimal(SubSeq(s, 1, Len(s) - 1))
            + (CHOOSE d \in 0..9 : DigitChars[d + 1] = s[Len(s)])

\* ToString
JsToString(v) ==
    CASE v.t = "number" -> ToDecimal(v.n)
      [] v.t = "string" -> v.s
      [] v.t = "function" -> <<"function Object() { [native code] }">>
      [] v.t = "object" -> <<"[object Object]">>
      [] v.t = "null" -> <<"null">>
      [] OTHER -> <<"undefined">>

\* a + b: the sum of two numbers, and otherwise the concatenation of the two
\* operands as strings (no operand of a + in the analyzer is undefined).
JsAdd(a, b) ==
    IF a.t = "number" /\ b.t = "number" THEN JsNum(a.n + b.n)
    ELSE JsStr(JsToString(a) \o JsToString(b))

\* ToNumber gives NaN for a string that is not a numeral.
IsNaN(v) == ~(v.t = "number" \/ (v.t = "string" /\ \A i \in DOMAIN v.s : IsDigit(v.s[i])))
JsToNumber(v) == IF v.t = "number" THEN v.n ELSE FromDecimal(v.s)

\* An array index: a canonical numeral below 2^32 - 1.  An object lists its
\* array-index keys first, in ascending numeric order, and then its other
\* keys in the order of their creation.
IsArrayIndex(key) ==
    /\ IsNumeric(key)
    /\ (Len(key) = 1 \/ key[1] # "0")
    /\ Len(key) <= 9

RECURSIVE AscendingIndexKeys(_)
AscendingIndexKeys(obj) ==
    IF obj = <<>> THEN <<>>
    ELSE LET least == CHOOSE i \in DOMAIN obj :
                          \A j \in DOMAIN obj :
                              FromDecimal(obj[i].key) <= FromDecimal(obj[j].key)
             IsRest(e) == e.key # obj[least].key
         IN <<obj[least]>> \o AscendingIndexKeys(SelectSeq(obj, IsRest))

\* Object.entries(obj)
entries(obj) ==
    LET IsIndexed(e) == IsArrayIndex(e.key)
        IsNamed(e) == ~IsArrayIndex(e.key)
    IN AscendingIndexKeys(SelectSeq(obj, IsIndexed)) \o SelectSeq(obj, IsNamed)

\* countWordFrequency(words)
RECURSIVE countInto(_, _)
countInto(frequency, ws) ==
    IF ws = <<>> THEN frequency
    ELSE countInto(Put(frequency, Head(ws),
                       JsAdd(JsOr(Get(frequency, Head(ws)), JsNum(0)), JsNum(1))),
                   Tail(ws))

countWordFrequency(ws) == countInto(<<>>, ws)

\* Mutant: the comparator with its operands exchanged (ascending order).
compareCountsAscending(a, b) ==
    IF IsNaN(a.count) \/ IsNaN(b.count) THEN 0
    ELSE JsToNumber(a.count) - JsToNumber(b.count)

\* (a, b) => b.count - a.count, a NaN difference counting as 0
compareCounts(a, b) ==
    IF IsNaN(a.count) \/ IsNaN(b.count) THEN 0
    ELSE JsToNumber(b.count) - JsToNumber(a.count)

\* Array.prototype.sort is stable: an element goes behind every element the
\* comparator does not put after it.
insertSorted(sorted, x) ==
    LET k == Cardinality({i \in DOMAIN sorted : compareCounts(sorted[i], x) <= 0})
    IN SubSeq(sorted, 1, k) \o <<x>> \o SubSeq(sorted, k + 1, Len(sorted))

RECURSIVE stableSort(_)
stableSort(arr) ==
    IF arr = <<>> THEN <<>>
    ELSE insertSorted(stableSort(SubSeq(arr, 1, Len(arr) - 1)), arr[Len(arr)])

\* With a comparator that is not a consistent ordering (here: a NaN count
\* beside two different numbers) the order sort() leaves is implementation
\* defined: any permutation of the array.
consistentComparator(arr) ==
    \A i, j, k \in DOMAIN arr :
        compareCounts(arr[i], arr[j]) = 0 /\ compareCounts(arr[j], arr[k]) = 0
            => compareCounts(arr[i], arr[k]) = 0

sort(arr) ==
    IF consistentComparator(arr) THEN {stableSort(arr)}
    ELSE {[i \in DOMAIN arr |-> arr[p[i]]] : p \in Permutations(DOMAIN arr)}

\* .slice(0, count)
slice(arr, count) ==
    LET end == IF count < 0
               THEN (IF Len(arr) + count < 0 THEN 0 ELSE Len(arr) + count)
               ELSE (IF count > Len(arr) THEN Len(arr) ELSE count)
    IN SubSeq(arr, 1, end)

\* getTopWords(frequency, count = 5): the set of the results it can give.
DefaultCount == 5

toWordCount(e) == [word |-> e.key, count |-> e.val]

getTopWords(frequency, count) ==
    LET own == entries(frequency)
        pairs == [i \in DOMAIN own |-> toWordCount(own[i])]
    IN {slice(sorted, count) : sorted \in sort(pairs)}

\* analyzeText(text): the set of its outcomes.
analyzeText(t) ==
    LET extracted == extractWords(t) IN
    IF extracted.threw # "" THEN {extracted}
    ELSE LET frequency == countWordFrequency(extracted.val)
         IN {Return([totalWords |-> Len(extracted.val),
                     uniqueWords |-> Len(entries(frequency)),
                     frequency |-> frequency,
                     topWords |-> topWords]) :
                 topWords \in getTopWords(frequency, DefaultCount)}

\* combineFrequencies(frequencyObjects)
RECURSIVE mergeInto(_, _)
mergeInto(combined, es) ==
    IF es = <<>> THEN combined
    ELSE mergeInto(Put(combined, Head(es).key,
                       JsAdd(JsOr(Get(combined, Head(es).key), JsNum(0)), Head(es).val)),
                   Tail(es))

RECURSIVE combineInto(_, _)
combineInto(combined, frequencyObjects) ==
    IF frequencyObjects = <<>> THEN combined
    ELSE combineInto(mergeInto(combined, entries(Head(frequencyObjects))),
                     Tail(frequencyObjects))

combineFrequencies(frequencyObjects) == combineInto(<<>>, frequencyObjects)

(***************************************************************************)
(* The inputs the operations are applied to.                               *)
(***************************************************************************)
RECURSIVE Concat(_)
Concat(ss) == IF ss = <<>> THEN <<>> ELSE Head(ss) \o Concat(Tail(ss))

SeqsUpTo(S, n) == UNION {[1..k -> S] : k \in 0..n}

\* Every string of at most MaxChars characters over one character of each
\* class the regular expressions tell apart.
Alphabet == {"a", "Q", "7", "_", "!", " ", "\n", "U+0130"}
ShortStrings == SeqsUpTo(Alphabet, MaxChars)

\* Longer texts, put together from at most MaxPieces pieces.
Pieces ==
    {<<"T","h","e"," ">>,
     <<"Q","u","i","c","k",",">>,
     <<"q","u","i","c","k"," ">>,
     <<"f","o","x"," ">>,
     <<"\t"," ">>,
     <<"1","2","3">>,
     <<"i","t","s">>,
     <<"a","1">>,
     <<"c","o","n","s","t","r","u","c","t","o","r","!">>}
PieceTexts == {Concat(ps) : ps \in SeqsUpTo(Pieces, MaxPieces)}

\* What a caller may hand in as `text`: a string, nothing, or something else.
TextValues ==
    {JsStr(s) : s \in ShortStrings \cup PieceTexts}
        \cup {JsUndefined, JsNull, JsNum(0), JsNum(42), JsObjectPrototype}

NoCall == [op |-> "none", threw |-> "", val |-> <<>>]
Called(op, c) == [op |-> op, threw |-> c.threw, val |-> c.val]

(***************************************************************************)
(* The text operations applied to one text.                                *)
(***************************************************************************)
InitText ==
    /\ stopWords = StopWordList
    /\ text \in TextValues
    /\ words = <<>>
    /\ articles = <<>>
    /\ call = NoCall
    /\ analysis = NoCall
    /\ report = NoCall
    /\ articleLinks = <<>>
    /\ loopIndex = 0
    /\ history = <<>>

CleanText ==
    /\ call' = Called("cleanText", cleanText(text))
    /\ UNCHANGED <<stopWords, text, words, articles, analysis, report, articleLinks, loopIndex, history>>

ExtractWords ==
    /\ call' = Called("extractWords", extractWords(text))
    /\ UNCHANGED <<stopWords, text, words, articles, analysis, report, articleLinks, loopIndex, history>>

AnalyzeText ==
    \E outcome \in analyzeText(text) :
        /\ call' = Called("analyzeText", outcome)
        /\ UNCHANGED <<stopWords, text, words, articles, analysis, report, articleLinks, loopIndex, history>>

NextText == CleanText \/ ExtractWords \/ AnalyzeText

SpecText == InitText /\ [][NextText]_vars

(***************************************************************************)
(* analyzeMultipleArticles(articles, topCount = 5).  An article is a       *)
(* record of JavaScript values; its analysis field is <<>> while the       *)
(* article has none and <<a>> once analysis a is attached.  The call sets  *)
(* the analysis of the articles in place, so its outcome carries the       *)
(* articles as the call leaves them.                                       *)
(***************************************************************************)
\* Mutant: an article without text is skipped and not returned.
RECURSIVE analyzeSkippingEmpty(_)
analyzeSkippingEmpty(as) ==
    IF as = <<>> THEN {[threw |-> "", articles |-> <<>>]}
    ELSE IF ~Truthy(Head(as).text) THEN analyzeSkippingEmpty(Tail(as))
    ELSE UNION {
           IF a.threw # "" THEN {[threw |-> a.threw, articles |-> as]}
           ELSE {[threw |-> rest.threw,
                  articles |-> <<[Head(as) EXCEPT !.analysis = <<a.val>>]>> \o rest.articles] :
                     rest \in analyzeSkippingEmpty(Tail(as))} :
           a \in analyzeText(Head(as).text)}

RECURSIVE analyzeEach(_)
analyzeEach(as) ==
    IF as = <<>> THEN {[threw |-> "", articles |-> <<>>]}
    ELSE UNION {
           IF a.threw # "" THEN {[threw |-> a.threw, articles |-> as]}
           ELSE {[threw |-> rest.threw,
                  articles |-> <<[Head(as) EXCEPT !.analysis = <<a.val>>]>> \o rest.articles] :
                     rest \in analyzeEach(Tail(as))} :
           a \in analyzeText(JsOr(Head(as).text, JsStr(<<>>)))}

analyzeMultipleArticles(as, topCount) ==
    UNION {
      IF each.threw # "" THEN {[threw |-> each.threw, val |-> <<>>, articles |-> each.articles]}
      ELSE LET allFrequencies ==
                   [i \in DOMAIN each.articles |-> each.articles[i].analysis[1].frequency]
               combinedFrequency == combineFrequencies(allFrequencies)
           IN {[threw |-> "",
                val |-> [articles |-> each.articles,
                         combinedFrequency |-> combinedFrequency,
                         topWords |-> topWords,
                         totalArticles |-> Len(as)],
                articles |-> each.articles] :
                   topWords \in getTopWords(combinedFrequency, topCount)} :
      each \in analyzeEach(as)}

(***************************************************************************)
(* generateFileContent(topWords, analysis).  The content is one string;    *)
(* `now` is what new Date().toISOString() gives.                           *)
(***************************************************************************)
\* Mutant: an article that carries an error is left out of the listing.
RECURSIVE articleLinesOfRead(_, _)
articleLinesOfRead(as, index) ==
    IF index > Len(as) THEN <<>>
    ELSE LET article == as[index]
             totalWords == IF article.analysis = <<>> THEN JsUndefined
                           ELSE JsNum(article.analysis[1].totalWords)
         IN (IF Truthy(article.error) THEN <<>>
             ELSE ToDecimal(index) \o <<". ">>
                    \o JsToString(JsOr(article.title, JsStr(<<"Unknown Title">>))) \o <<"\n">>
                  \o <<"   URL: ">>
                    \o JsToString(JsOr(article.url, JsStr(<<"Unknown URL">>))) \o <<"\n">>
                  \o <<"   Words: ">>
                    \o JsToString(JsOr(totalWords, JsNum(0))) \o <<"\n", "\n">>)
              \o articleLinesOfRead(as, index + 1)

RECURSIVE articleLines(_, _)
articleLines(as, index) ==
    IF index > Len(as) THEN <<>>
    ELSE LET article == as[index]
             totalWords == IF article.analysis = <<>> THEN JsUndefined
                           ELSE JsNum(article.analysis[1].totalWords)
         IN ToDecimal(index) \o <<". ">>
                \o JsToString(JsOr(article.title, JsStr(<<"Unknown Title">>))) \o <<"\n">>
              \o <<"   URL: ">>
                \o JsToString(JsOr(article.url, JsStr(<<"Unknown URL">>))) \o <<"\n">>
              \o <<"   Words: ">>
                \o JsToString(JsOr(totalWords, JsNum(0))) \o <<"\n", "\n">>
              \o articleLines(as, index + 1)

RECURSIVE topWordLines(_, _)
topWordLines(topWords, index) ==
    IF index > Len(topWords) THEN <<>>
    ELSE ToDecimal(index) \o <<". \"">> \o topWords[index].word \o <<"\" - ">>
             \o JsToString(topWords[index].count) \o <<" occurrences", "\n">>
           \o topWordLines(topWords, index + 1)

generateFileContent(topWords, an, now) ==
    <<"Word Frequency Analysis Results", "\n">>
      \o <<"===============================", "\n", "\n">>
      \o <<"Analysis Date: ", now, "\n">>
      \o <<"Articles Analyzed: ">> \o ToDecimal(Len(an.articles)) \o <<"\n", "\n">>
      \o <<"Articles:", "\n">>
      \o articleLines(an.articles, 1)
      \o <<"Top 5 Most Repeated Words Across All Articles:", "\n">>
      \o <<"==============================================", "\n">>
      \o topWordLines(topWords, 1)
      \o <<"\n", "\n", "Generated by Haci Arpaci", "\n">>

(***************************************************************************)
(* The table operations applied to one array of words.                     *)
(***************************************************************************)
MaxCount == 3
Counts == (0 - 1)..MaxCount

Vocabulary ==
    {<<"f","o","x">>, <<"d","o","g">>, <<"4","2">>, <<"7">>, Constructor, Proto}
WordArrays == SeqsUpTo(Vocabulary, MaxWords)

InitWords ==
    /\ stopWords = StopWordList
    /\ text = JsUndefined
    /\ words \in WordArrays
    /\ articles = <<>>
    /\ call = NoCall
    /\ analysis = NoCall
    /\ report = NoCall
    /\ articleLinks = <<>>
    /\ loopIndex = 0
    /\ history = <<>>

CountWordFrequency ==
    /\ call' = Called("countWordFrequency", Return(countWordFrequency(words)))
    /\ UNCHANGED <<stopWords, text, words, articles, analysis, report, articleLinks, loopIndex, history>>

\* getTopWords on the table of the words.
GetTopWords ==
    \E count \in Counts :
        LET frequency == countWordFrequency(words) IN
        \E top \in getTopWords(frequency, count) :
            /\ call' = [op |-> "getTopWords", threw |-> "", val |-> top,
                        frequency |-> frequency, count |-> count]
            /\ UNCHANGED <<stopWords, text, words, articles, analysis, report, articleLinks, loopIndex, history>>

\* combineFrequencies on the tables of the two parts of the words.
CombineFrequencies ==
    \E k \in 0..Len(words) :
        LET frequencyObjects == <<countWordFrequency(SubSeq(words, 1, k)),
                                  countWordFrequency(SubSeq(words, k + 1, Len(words)))>>
        IN /\ call' = [op |-> "combineFrequencies", threw |-> "",
                       val |-> combineFrequencies(frequencyObjects),
                       frequencyObjects |-> frequencyObjects]
           /\ UNCHANGED <<stopWords, text, words, articles, analysis, report, articleLinks, loopIndex, history>>

NextWords == CountWordFrequency \/ GetTopWords \/ CombineFrequencies

SpecWords == InitWords /\ [][NextWords]_vars

(***************************************************************************)
(* A batch of articles analyzed and reported, as the test does.            *)
(***************************************************************************)
Article(title, url, t, error) ==
    [title |-> title, url |-> url, text |-> t,
     author |-> JsStr(<<"Unknown">>), date |-> JsStr(<<"Unknown">>),
     index |-> 0, error |-> error, analysis |-> <<>>]

QuickFox ==
    Article(JsStr(<<"Quick fox">>), JsStr(<<"/blog/quick-fox">>),
            JsStr(<<"T","h","e"," ","Q","u","i","c","k",","," ","q","u","i","c","k"," ",
                    "f","o","x","!">>),
            JsUndefined)
\* An article whose title and url came out empty.
Constructors ==
    Article(JsStr(<<>>), JsStr(<<>>),
            JsStr(<<"F","o","x"," ","a","n","d"," ",
                    "c","o","n","s","t","r","u","c","t","o","r"," ","4","2">>),
            JsUndefined)
DogRuns ==
    Article(JsStr(<<"Dog runs">>), JsStr(<<"/blog/dog-runs">>),
            JsStr(<<"d","o","g"," ","f","o","x",","," ","D","o","g">>),
            JsUndefined)
\* What the test pushes for an article it could not read.
Failed ==
    Article(JsStr(<<"Article (Error)">>), JsStr(<<"/blog/failed">>), JsStr(<<>>),
            JsStr(<<"Timeout 30000ms exceeded">>))
\* A failed article with nothing but its error.
Missing ==
    Article(JsUndefined, JsUndefined, JsUndefined, JsStr(<<"net::ERR_FAILED">>))

ArticleKinds == {QuickFox, Constructors, DogRuns, Failed, Missing}
Batches ==
    {[i \in DOMAIN kinds |-> [kinds[i] EXCEPT !.index = i]] :
        kinds \in SeqsUpTo(ArticleKinds, MaxDocs)}

Clock == {"2025-01-01T00:00:00.000Z", "2025-06-30T12:00:00.000Z"}

InitBatch ==
    /\ stopWords = StopWordList
    /\ text = JsUndefined
    /\ words = <<>>
    /\ articles \in Batches
    /\ call = NoCall
    /\ analysis = NoCall
    /\ report = NoCall
    /\ articleLinks = <<>>
    /\ loopIndex = 0
    /\ history = <<>>

\* The test analyzes the batch once (line 127) and then reports it (line 140).
AnalyzeMultipleArticles ==
    /\ analysis = NoCall
    /\ \E topCount \in Counts :
        \E outcome \in analyzeMultipleArticles(articles, topCount) :
            /\ articles' = outcome.articles
            /\ analysis' = IF outcome.threw = "" THEN Called("analyzeMultipleArticles", outcome)
                           ELSE analysis
            /\ call' = [op |-> "analyzeMultipleArticles", threw |-> outcome.threw,
                        val |-> outcome.val, articles |-> articles, topCount |-> topCount]
            /\ UNCHANGED <<stopWords, text, words, report, articleLinks, loopIndex, history>>

\* The report of the last analysis, or of that analysis with the analysis of
\* one of its articles missing.
WithoutAnalysis(an, k) ==
    [an EXCEPT !.articles =
        [i \in DOMAIN an.articles |->
            IF i = k THEN [an.articles[i] EXCEPT !.analysis = <<>>] ELSE an.articles[i]]]

GenerateFileContent ==
    /\ analysis.op = "analyzeMultipleArticles"
    /\ report = NoCall
    /\ \E k \in 0..Len(analysis.val.articles), now \in Clock :
          LET an == WithoutAnalysis(analysis.val, k)
              content == generateFileContent(analysis.val.topWords, an, now)
          IN /\ report' = Called("generateFileContent", Return(content))
             /\ call' = [op |-> "generateFileContent", threw |-> "", val |-> content,
                         topWords |-> analysis.val.topWords, analysis |-> an]
    /\ UNCHANGED <<stopWords, text, words, articles, analysis, articleLinks, loopIndex, history>>

NextBatch == AnalyzeMultipleArticles \/ GenerateFileContent

SpecBatch == InitBatch /\ [][NextBatch]_vars

(***************************************************************************)
(* Claims about the text operations, checked under SpecText.               *)
(***************************************************************************)
IsLowerWordChar(c) == c \in Range(LowerLetters) \cup Range(DigitChars) \cup {"_"}

\* Empty, or lower-case word characters in tokens separated by exactly one
\* space, with no space at either end.
IsCanonical(s) ==
    \/ s = <<>>
    \/ /\ \A i \in DOMAIN s : IsLowerWordChar(s[i]) \/ s[i] = " "
       /\ s[1] # " "
       /\ s[Len(s)] # " "
       /\ \A i \in 1..(Len(s) - 1) : ~(s[i] = " " /\ s[i + 1] = " ")

\* C9: for every string s, cleanText(cleanText(s)) = cleanText(s), and
\* cleanText(s) is empty or made of lower-case alphanumeric/underscore tokens
\* separated by exactly one space, with no leading or trailing space.
CleanTextIdempotentCanonical ==
    (call.op = "cleanText" /\ text.t = "string") =>
        /\ call.threw = ""
        /\ cleanText(JsStr(call.val)) = Return(call.val)
        /\ IsCanonical(call.val)

\* cleanText has normalized a string with upper case, punctuation and white
\* space at its start into more than one token.
CleanTextWitness ==
    /\ call.op = "cleanText"
    /\ text.t = "string"
    /\ text.s # <<>>
    /\ IsWhiteSpace(text.s[1])
    /\ \E i \in DOMAIN text.s : text.s[i] \in Range(UpperLetters)
    /\ \E i \in DOMAIN text.s : ~IsWordChar(text.s[i]) /\ ~IsWhiteSpace(text.s[i])
    /\ \E i \in DOMAIN call.val : call.val[i] = " "

\* The space-separated tokens of a normalized text, by position: a token
\* starts where a character other than a space has no such character before
\* it, and runs up to the next space.
TokenStarts(s) == {i \in DOMAIN s : s[i] # " " /\ (i = 1 \/ s[i - 1] = " ")}
TokenFrom(s, i) ==
    SubSeq(s, i, CHOOSE j \in i..Len(s) :
                     /\ \A k \in i..j : s[k] # " "
                     /\ (j = Len(s) \/ s[j + 1] = " "))
TokensOf(s) ==
    [n \in 1..Cardinality(TokenStarts(s)) |->
        TokenFrom(s, CHOOSE i \in TokenStarts(s) :
                         Cardinality({j \in TokenStarts(s) : j < i}) = n - 1)]

IsSignificant(token) ==
    /\ Len(token) >= 3
    /\ token \notin StopWordList
    /\ \E i \in DOMAIN token : token[i] \notin Range(DigitChars)

\* C6: extractWords(text) is exactly the subsequence of the space-separated
\* tokens of the normalized text that have length >= 3, are no stop word and
\* are not all digits, in order and with duplicates; every token of length
\* exactly 3 that is neither a stop word nor numeric is kept.
ExtractWordsFilters ==
    (call.op = "extractWords" /\ text.t = "string") =>
        LET tokens == TokensOf(cleanText(text).val) IN
        /\ call.threw = ""
        /\ call.val = SelectSeq(tokens, IsSignificant)
        /\ \A i \in DOMAIN call.val :
              /\ Len(call.val[i]) >= 3
              /\ call.val[i] \notin StopWordList
              /\ ~IsNumeric(call.val[i])
        /\ \A i \in DOMAIN tokens :
              (Len(tokens[i]) = 3 /\ IsSignificant(tokens[i]))
                  => \E j \in DOMAIN call.val : call.val[j] = tokens[i]

\* extractWords has kept a token of exactly three characters, twice, and
\* dropped a stop word.
ExtractWordsWitness ==
    /\ call.op = "extractWords"
    /\ text.t = "string"
    /\ \E i, j \in DOMAIN call.val :
          i < j /\ call.val[i] = call.val[j] /\ Len(call.val[i]) = 3
    /\ LET tokens == TokensOf(cleanText(text).val)
       IN \E i \in DOMAIN tokens : tokens[i] \in StopWordList

ZeroAnalysis == [totalWords |-> 0, uniqueWords |-> 0, frequency |-> <<>>, topWords |-> <<>>]

\* C8: analyzeText never raises, whatever its input; empty or missing text
\* gives the zero-valued result.
AnalyzeTextNeverRaises ==
    call.op = "analyzeText" =>
        /\ call.threw = ""
        /\ ~Truthy(text) => call.val = ZeroAnalysis
(***************************************************************************)
(* Claims about the table operations, checked under SpecWords.             *)
(***************************************************************************)
Occurrences(ws, w) == Cardinality({i \in DOMAIN ws : ws[i] = w})
Keys(obj) == {obj[i].key : i \in DOMAIN obj}
IsCount(v) == v.t = "number" /\ v.n >= 1

\* C7: the table countWordFrequency returns has as keys exactly the distinct
\* tokens of the sequence, each with the positive integer that is the number of
\* its occurrences, also for a word that names a built-in property; and the
\* values of the table combineFrequencies returns are positive integers.
FrequencyTableInvariant ==
    /\ call.op = "countWordFrequency" =>
          /\ Keys(call.val) = Range(words)
          /\ \A i \in DOMAIN call.val :
                /\ IsCount(call.val[i].val)
                /\ call.val[i].val.n = Occurrences(words, call.val[i].key)
    /\ call.op = "combineFrequencies" =>
          \A i \in DOMAIN call.val : IsCount(call.val[i].val)

\* C3: getTopWords with a negative count, and analyzeMultipleArticles with a
\* negative topCount, raise InvalidArgument and return no ranked words.
NegativeCountRejected ==
    /\ (call.op = "getTopWords" /\ call.count < 0) =>
          call.threw = "InvalidArgument" /\ call.val = <<>>
    /\ (call.op = "analyzeMultipleArticles" /\ call.topCount < 0) =>
          call.threw = "InvalidArgument"

\* A frequency table: every count a positive integer.
IsFrequencyTable(obj) == \A i \in DOMAIN obj : IsCount(obj[i].val)

Min(a, b) == IF a < b THEN a ELSE b

\* C4: for every frequency table and every N >= 0, getTopWords returns pairs
\* in non-increasing order of count, exactly min(N, number of distinct words)
\* of them, each word at most once and with the count the table holds for it,
\* and no word with a lower count than a word left out.
RankingCorrect ==
    (call.op = "getTopWords" /\ call.count >= 0 /\ IsFrequencyTable(call.frequency)) =>
        LET top == call.val
            table == call.frequency
        IN /\ call.threw = ""
           /\ \A i \in 1..(Len(top) - 1) : top[i].count.n >= top[i + 1].count.n
           /\ Len(top) = Min(call.count, Cardinality(Keys(table)))
           /\ \A i, j \in DOMAIN top : top[i].word = top[j].word => i = j
           /\ \A i \in DOMAIN top :
                 \E k \in DOMAIN table :
                     table[k].key = top[i].word /\ table[k].val = top[i].count
           /\ \A k \in DOMAIN table :
                 (\A i \in DOMAIN top : top[i].word # table[k].key)
                     => \A i \in DOMAIN top : top[i].count.n >= table[k].val.n

\* getTopWords has cut a table of words with different counts down to fewer
\* words, and the word it ranks first is not the first of the table.
RankingWitness ==
    /\ call.op = "getTopWords"
    /\ IsFrequencyTable(call.frequency)
    /\ call.count >= 1
    /\ Len(call.val) = call.count
    /\ Len(call.frequency) > call.count
    /\ call.val[1].word # call.frequency[1].key
    /\ \E k \in DOMAIN call.frequency : call.frequency[k].val.n < call.val[1].count.n

FirstSeen(ws, w) == CHOOSE i \in DOMAIN ws : ws[i] = w /\ \A j \in 1..(i - 1) : ws[j] # w

\* C5: in the result of getTopWords, two words with equal counts appear in the
\* order in which they were first inserted into the frequency table (for a
\* table counted from a sequence of tokens: the order of first occurrence).
TieBreakFirstSeen ==
    (call.op = "getTopWords" /\ IsFrequencyTable(call.frequency)) =>
        \A i, j \in DOMAIN call.val :
            (i < j /\ call.val[i].count = call.val[j].count)
                => FirstSeen(words, call.val[i].word) < FirstSeen(words, call.val[j].word)
(***************************************************************************)
(* Claims about a batch and its report, checked under SpecBatch.           *)
(***************************************************************************)
OwnCount(obj, w) == IF OwnIndex(obj, w) # 0 THEN obj[OwnIndex(obj, w)].val ELSE JsNum(0)

RECURSIVE SumOver(_, _)
SumOver(tables, w) ==
    IF tables = <<>> THEN 0
    ELSE OwnCount(Head(tables), w).n + SumOver(Tail(tables), w)

TablesOf(as) == [i \in DOMAIN as |-> as[i].analysis[1].frequency]

\* C1: for every batch handed to analyzeMultipleArticles and every word of any
\* document's frequency table, combinedFrequency holds for the word the sum of
\* the documents' counts of it, and combinedFrequency has no other key.
Conservation ==
    (call.op = "analyzeMultipleArticles" /\ call.threw = "") =>
        LET tables == TablesOf(call.val.articles)
            combined == call.val.combinedFrequency
            inSome == UNION {Keys(tables[i]) : i \in DOMAIN tables}
        IN /\ Keys(combined) = inSome
           /\ \A w \in inSome :
                 /\ \A i \in DOMAIN tables : OwnCount(tables[i], w).t = "number"
                 /\ OwnCount(combined, w) = JsNum(SumOver(tables, w))

\* An article whose extraction failed: its error is set and its text is empty
\* or missing.
HasFailed(article) == Truthy(article.error) /\ ~Truthy(article.text)
HasNotFailed(article) == ~HasFailed(article)
Unanalyzed(article) == [article EXCEPT !.analysis = <<>>]

\* C2: for every batch, some of whose documents carry an error and an empty or
\* missing text, and every topCount >= 0, analyzeMultipleArticles does not
\* raise, returns totalArticles equal to the number of documents, returns the
\* documents in input order with an analysis attached to each, gives each
\* failed document the analysis of no words, and gives the combinedFrequency
\* and topWords of the batch without the failed documents.
PartialFailureTolerated ==
    (call.op = "analyzeMultipleArticles" /\ call.topCount >= 0) =>
        /\ call.threw = ""
        /\ call.val.totalArticles = Len(call.articles)
        /\ Len(call.val.articles) = Len(call.articles)
        /\ \A i \in DOMAIN call.articles :
              LET article == call.val.articles[i] IN
              /\ Unanalyzed(article) = Unanalyzed(call.articles[i])
              /\ Len(article.analysis) = 1
              /\ ~Truthy(article.text) =>
                    /\ article.analysis[1].totalWords = 0
                    /\ article.analysis[1].uniqueWords = 0
                    /\ article.analysis[1].frequency = <<>>
        /\ \E others \in analyzeMultipleArticles(
                             SelectSeq(call.articles, HasNotFailed), call.topCount) :
              /\ others.threw = ""
              /\ others.val.combinedFrequency = call.val.combinedFrequency
              /\ others.val.topWords = call.val.topWords

\* Three documents, the second of them failed, analyzed into top words that
\* come from the two others.
PartialFailureWitness ==
    /\ call.op = "analyzeMultipleArticles"
    /\ call.topCount >= 1
    /\ Len(call.articles) = 3
    /\ HasFailed(call.articles[2])
    /\ HasNotFailed(call.articles[1]) /\ HasNotFailed(call.articles[3])
    /\ call.val.totalArticles = 3
    /\ call.val.topWords # <<>>

\* The lines of a content: what stands between its line feeds.
RECURSIVE LinesFrom(_, _, _)
LinesFrom(content, i, line) ==
    IF i > Len(content) THEN <<line>>
    ELSE IF content[i] = "\n" THEN <<line>> \o LinesFrom(content, i + 1, <<>>)
    ELSE LinesFrom(content, i + 1, Append(line, content[i]))

Lines(content) == LinesFrom(content, 1, <<>>)

LineOf(lines, l) == CHOOSE i \in DOMAIN lines : lines[i] = l

TitleShown(article) ==
    IF article.title.t = "string" /\ article.title.s # <<>>
    THEN article.title.s ELSE <<"Unknown Title">>
UrlShown(article) ==
    IF article.url.t = "string" /\ article.url.s # <<>>
    THEN article.url.s ELSE <<"Unknown URL">>
WordsShown(article) ==
    IF article.analysis = <<>> THEN <<"0">>
    ELSE ToDecimal(article.analysis[1].totalWords)

\* C10: generateFileContent emits an article count equal to the number of
\* documents and one entry per document, in batch order and numbered from 1,
\* with the document's title (or "Unknown Title"), url (or "Unknown URL") and
\* the totalWords of its own analysis (0 when that is absent or the document
\* failed); and the ranked listing has one numbered line per top word, in order.
ReportReflectsEveryDocument ==
    call.op = "generateFileContent" =>
        LET lines == Lines(call.val)
            docs == call.analysis.articles
            n == Len(docs)
            first == LineOf(lines, <<"Articles:">>)
            ranked == LineOf(lines, <<"==============================================">>)
        IN /\ \E i \in DOMAIN lines : lines[i] = <<"Articles Analyzed: ">> \o ToDecimal(n)
           /\ ranked = first + 4 * n + 2
           /\ \A i \in 1..n :
                 /\ lines[first + 4 * i - 3] = ToDecimal(i) \o <<". ">> \o TitleShown(docs[i])
                 /\ lines[first + 4 * i - 2] = <<"   URL: ">> \o UrlShown(docs[i])
                 /\ lines[first + 4 * i - 1] = <<"   Words: ">> \o WordsShown(docs[i])
                 /\ lines[first + 4 * i] = <<>>
                 /\ HasFailed(docs[i]) => WordsShown(docs[i]) = <<"0">>
           /\ \A k \in DOMAIN call.topWords :
                 lines[ranked + k] =
                     ToDecimal(k) \o <<". \"">> \o call.topWords[k].word \o <<"\" - ">>
                         \o JsToString(call.topWords[k].count) \o <<" occurrences">>
           /\ lines[ranked + Len(call.topWords) + 1] = <<>>
           /\ Len(lines) = ranked + Len(call.topWords) + 4

\* A report of three documents: one read, one failed without a title or url,
\* one whose analysis is missing; with at least two ranked words.
ReportWitness ==
    /\ call.op = "generateFileContent"
    /\ Len(call.analysis.articles) = 3
    /\ \E i, j, k \in 1..3 :
          /\ call.analysis.articles[i].analysis # <<>>
          /\ call.analysis.articles[i].analysis[1].totalWords > 0
          /\ HasFailed(call.analysis.articles[j])
          /\ ~Truthy(call.analysis.articles[j].title)
          /\ k # i /\ call.analysis.articles[k].analysis = <<>>
    /\ Len(call.topWords) >= 2
(***************************************************************************)
(* Claims about the result of analyzeText, checked under SpecText.         *)
(***************************************************************************)
RECURSIVE SumOfCounts(_)
SumOfCounts(obj) ==
    IF obj = <<>> THEN 0 ELSE Head(obj).val.n + SumOfCounts(Tail(obj))

\* C13: in every result analyzeText returns, totalWords is the sum of the
\* counts of frequency, uniqueWords is the number of its keys and at most
\* totalWords, and topWords is getTopWords(frequency, 5), so at most 5 entries.
AnalysisConsistent ==
    (call.op = "analyzeText" /\ call.threw = "") =>
        /\ \A i \in DOMAIN call.val.frequency : call.val.frequency[i].val.t = "number"
        /\ call.val.totalWords = SumOfCounts(call.val.frequency)
        /\ call.val.uniqueWords = Cardinality(Keys(call.val.frequency))
        /\ call.val.uniqueWords <= call.val.totalWords
        /\ call.val.topWords \in getTopWords(call.val.frequency, DefaultCount)
        /\ Len(call.val.topWords) <= DefaultCount

(***************************************************************************)
(* The loop of the word-frequency test (blog.spec.js, lines 64 to 127):    *)
(* the latest links are taken from the blog page, each is opened and read  *)
(* into a document, and the documents are analyzed together.  A page is    *)
(* what the browser finds behind a link: goto and scroll are "" or the     *)
(* message of the error the step throws, title, author and date are the    *)
(* text of the element or JsNull when there is none, and paragraphs are    *)
(* the texts of the p and li elements.                                     *)
(***************************************************************************)
MaxLinks == 3

\* getLatestArticleLinks(3) and the bound of the loop.
LatestCount == 3
\* expect(text.length).toBeGreaterThan(100)
MinTextLength == 100

Url(k) == JsStr(<<"/blog/">> \o ToDecimal(k))
Links == {Url(k) : k \in 1..MaxLinks}
\* getArticleLinks(): the links of the blog page, none of them twice.
LinkLists ==
    {links \in SeqsUpTo(Links, MaxLinks) :
        \A a, b \in DOMAIN links : a # b => links[a] # links[b]}

\* getLatestArticleLinks(count)
getLatestArticleLinks(allLinks, count) == slice(allLinks, count)

Page(goto, title, paragraphs, scroll, author, date) ==
    [goto |-> goto, title |-> title, paragraphs |-> paragraphs, scroll |-> scroll,
     author |-> author, date |-> date]

PageTitle == JsStr(<<" "," ","I","n","d","o","o","r"," ","M","a","p","s"," ">>)
Unreachable ==
    Page("net::ERR_CONNECTION_REFUSED", JsNull, <<>>, "", JsNull, JsNull)
NotAnArticle ==
    Page("", JsNull, <<<<"4","0","4">>>>, "", JsNull, JsNull)
ScrollFails ==
    Page("", PageTitle, <<<<"M","a","p","s">>>>, "page.evaluate: Target closed",
         JsNull, JsNull)
\* A page whose text is exactly MinTextLength characters long.
Thin ==
    Page("", PageTitle,
         <<<<"M","a","p","s"," ","g","u","i","d","e"," ","g","u","e","s","t","s">>,
           <<"W","a","y","f","i","n","d","i","n","g"," ","m","a","p","s"," ","g",
                "u","i","d","e"," ","v","i","s","i","t","o","r","s"," ","i","n","d",
                "o","o","r","s",";"," ","m","a","p","s"," ","h","e","l","p"," ","v",
                "i","s","i","t","o","r","s">>,
           <<"C","o","m","i","n","g"," ","s","o","o","n",".">>>>,
         "", JsStr(<<"B","y"," ","A","n","n"," ">>), JsNull)
LongRead ==
    Page("", PageTitle,
         <<<<" ","W","a","y","f","i","n","d","i","n","g"," ","m","a","p","s"," ",
                "g","u","i","d","e"," ","v","i","s","i","t","o","r","s"," ","i","n",
                "d","o","o","r","s",";"," ","m","a","p","s"," ","h","e","l","p",".",
                " ">>,
           <<"V","i","s","i","t","o","r","s"," ","f","o","l","l","o","w"," ","m",
                "a","p","s",","," ","a","n","d"," ","m","a","p","s"," ","f","o","l",
                "l","o","w"," ","v","i","s","i","t","o","r","s","!","\n">>>>,
         "", JsStr(<<"B","y"," ","A","n","n"," ">>), JsStr(<<" ","M","a","y"," ","1">>))
\* The title element holds white space only.
Untitled ==
    [LongRead EXCEPT !.title = JsStr(<<" ", "\n">>), !.author = JsStr(<<" ">>)]
Pages == {Unreachable, NotAnArticle, ScrollFails, Thin, LongRead, Untitled}
\* What page.screenshot throws, "" when it throws nothing.
Screenshots == {"", "page.screenshot: Timeout 30000ms exceeded"}

\* isArticlePageLoaded(): the title element is there and so is a paragraph.
isArticlePageLoaded(page) == page.title # JsNull /\ Len(page.paragraphs) > 0

\* getArticleTitle()
getArticleTitle(page) ==
    IF page.title # JsNull /\ Truthy(page.title) /\ Len(trim(page.title.s)) > 0
    THEN JsStr(trim(page.title.s))
    ELSE JsStr(<<"Unknown Title">>)

\* elements.map(el => el.textContent.trim()).filter(text => text.length > 0)
RECURSIVE textElements(_)
textElements(elements) ==
    IF elements = <<>> THEN <<>>
    ELSE (IF Len(trim(Head(elements))) > 0 THEN <<trim(Head(elements))>> ELSE <<>>)
           \o textElements(Tail(elements))

\* .join(' ')
RECURSIVE join(_)
join(strs) ==
    IF strs = <<>> THEN <<>>
    ELSE IF Len(strs) = 1 THEN Head(strs)
    ELSE Head(strs) \o <<" ">> \o join(Tail(strs))

\* ArticlePage.cleanText(text)
articlePageCleanText(s) == trim(toLowerCase(replacePunctuation(collapseWhiteSpace(s))))

\* getArticleText(): headings, paragraphs and list items.
getArticleText(page) ==
    LET headings == IF page.title = JsNull THEN <<>> ELSE <<page.title.s>>
    IN JsStr(articlePageCleanText(join(textElements(headings \o page.paragraphs))))

\* .replace(/^by\s+/i, '')
stripBy(s) ==
    IF Len(s) >= 3 /\ CharToLower(s[1]) = <<"b">> /\ CharToLower(s[2]) = <<"y">>
          /\ IsWhiteSpace(s[3])
    THEN trimStart(SubSeq(s, 3, Len(s)))
    ELSE s

\* getAuthor()
getAuthor(page) ==
    IF page.author # JsNull /\ Truthy(page.author) /\ Len(trim(page.author.s)) > 0
    THEN JsStr(stripBy(trim(page.author.s)))
    ELSE JsStr(<<"Unknown Author">>)

\* getPublishDate()
getPublishDate(page) ==
    IF page.date # JsNull /\ Truthy(page.date) /\ Len(trim(page.date.s)) > 0
    THEN JsStr(trim(page.date.s))
    ELSE JsStr(<<"Unknown Date">>)

\* The document the catch block pushes (lines 113 to 121).
failureDocument(articleUrl, i, message) ==
    [title |-> JsStr(<<"Article ">> \o ToDecimal(i + 1) \o <<" (Error)">>),
     url |-> articleUrl, text |-> JsStr(<<>>),
     author |-> JsStr(<<"Unknown">>), date |-> JsStr(<<"Unknown">>),
     index |-> i + 1, error |-> JsStr(<<message>>), analysis |-> <<>>]

\* The try block (lines 75 to 108): the documents it pushes and the message of
\* the error it throws, "" when it runs to its end.
tryArticle(articleUrl, i, page, screenshot) ==
    IF page.goto # "" THEN [pushed |-> <<>>, threw |-> page.goto]
    ELSE IF ~isArticlePageLoaded(page)
    THEN [pushed |-> <<>>, threw |-> "expect(received).toBe(expected)"]
    ELSE IF page.scroll # "" THEN [pushed |-> <<>>, threw |-> page.scroll]
    ELSE LET t == getArticleText(page)
             document == [title |-> getArticleTitle(page), url |-> articleUrl,
                          text |-> t, author |-> getAuthor(page),
                          date |-> getPublishDate(page), index |-> i + 1,
                          error |-> JsUndefined, analysis |-> <<>>]
         IN IF ~(Len(t.s) > MinTextLength)
            THEN [pushed |-> <<>>, threw |-> "expect(received).toBeGreaterThan(expected)"]
            ELSE [pushed |-> <<document>>, threw |-> screenshot]

\* One pass of the loop body (lines 72 to 122): the documents it pushes.
processArticle(articleUrl, i, page, screenshot) ==
    LET attempt == tryArticle(articleUrl, i, page, screenshot)
    IN IF attempt.threw = "" THEN attempt.pushed
       ELSE attempt.pushed \o <<failureDocument(articleUrl, i, attempt.threw)>>

InitLoop ==
    /\ stopWords = StopWordList
    /\ text = JsUndefined
    /\ words = <<>>
    /\ articles = <<>>
    /\ call = NoCall
    /\ analysis = NoCall
    /\ report = NoCall
    /\ articleLinks = <<>>
    /\ loopIndex = 0
    /\ history = <<>>

\* Lines 64 to 68: the links are taken and there must be at least three.
GetLatestArticleLinks ==
    /\ call.op = "none"
    /\ \E allLinks \in LinkLists :
          LET latest == getLatestArticleLinks(allLinks, LatestCount)
          IN /\ articleLinks' = latest
             /\ call' = [op |-> "getLatestArticleLinks",
                         threw |-> IF Len(latest) >= LatestCount THEN ""
                                   ELSE "expect(received).toBeGreaterThanOrEqual(expected)",
                         val |-> latest]
    /\ articles' = <<>>
    /\ UNCHANGED <<stopWords, text, words, analysis, report, loopIndex, history>>

\* Lines 71 to 123: one pass of the loop, loopIndex being the i of the source.
ProcessArticle ==
    /\ call.op \in {"getLatestArticleLinks", "processArticle"}
    /\ call.threw = ""
    /\ loopIndex < Min(Len(articleLinks), LatestCount)
    /\ \E page \in Pages, screenshot \in Screenshots :
          /\ articles' = articles
                \o processArticle(articleLinks[loopIndex + 1], loopIndex, page, screenshot)
          /\ call' = [op |-> "processArticle", threw |-> "", val |-> page]
    /\ loopIndex' = loopIndex + 1
    /\ UNCHANGED <<stopWords, text, words, analysis, report, articleLinks, history>>

\* Line 127: the loop is over and the documents are analyzed.
AnalyzeArticles ==
    /\ call.op \in {"getLatestArticleLinks", "processArticle"}
    /\ call.threw = ""
    /\ ~(loopIndex < Min(Len(articleLinks), LatestCount))
    /\ \E outcome \in analyzeMultipleArticles(articles, DefaultCount) :
          /\ articles' = outcome.articles
          /\ analysis' = Called("analyzeMultipleArticles", outcome)
          /\ call' = [op |-> "analyzeMultipleArticles", threw |-> outcome.threw,
                      val |-> outcome.val, articles |-> articles,
                      topCount |-> DefaultCount]
    /\ UNCHANGED <<stopWords, text, words, report, articleLinks, loopIndex, history>>

NextLoop == GetLatestArticleLinks \/ ProcessArticle \/ AnalyzeArticles

SpecLoop == InitLoop /\ [][NextLoop]_vars

(***************************************************************************)
(* Claims about the loop of the test, checked under SpecLoop.              *)
(***************************************************************************)
IsSuccessDocument(document) ==
    /\ ~Truthy(document.error)
    /\ \E page \in Pages :
          /\ document.title = getArticleTitle(page)
          /\ document.text = getArticleText(page)
          /\ document.author = getAuthor(page)
          /\ document.date = getPublishDate(page)
IsFailureDocument(document) ==
    Truthy(document.error) /\ document.text = JsStr(<<>>)

\* C11: after pass i of the loop the articles list holds exactly i documents,
\* document k has index k and the url of link k and is a success document or
\* a failure document, no pass ends the test with an exception, and
\* analyzeMultipleArticles is called only after the first min(number of
\* links, 3) links were processed, on the documents collected.
OneDocumentPerLink ==
    call.op \in {"processArticle", "analyzeMultipleArticles"} =>
        /\ call.threw = ""
        /\ loopIndex <= Min(Len(articleLinks), LatestCount)
        /\ Len(articles) = loopIndex
        /\ \A k \in DOMAIN articles :
              /\ articles[k].index = k
              /\ articles[k].url = articleLinks[k]
              /\ IsSuccessDocument(articles[k]) \/ IsFailureDocument(articles[k])
        /\ call.op = "analyzeMultipleArticles" =>
              /\ loopIndex = Min(Len(articleLinks), LatestCount)
              /\ Len(call.articles) = loopIndex
              /\ call.val.totalArticles = loopIndex

(***************************************************************************)
(* Calls made one after the other on one analyzer.  The history keeps of   *)
(* every call its arguments as they were handed in (args), the same        *)
(* objects as the call left them (after), its outcome, and for             *)
(* generateFileContent what new Date().toISOString() gave (now).           *)
(***************************************************************************)
MaxCalls == 2

Made(op, args, after, outcome, now) ==
    [op |-> op, args |-> args, after |-> after,
     threw |-> outcome.threw, val |-> outcome.val, now |-> now]

CallTexts == {JsUndefined, JsNum(42), QuickFox.text, Constructors.text}
CallWords ==
    {<<>>,
     <<<<"f","o","x">>, <<"d","o","g">>, <<"f","o","x">>>>,
     <<Constructor, <<"f","o","x">>>>,
     <<Proto>>}
CallTables == {countWordFrequency(ws) : ws \in CallWords}
CallCounts == {1, DefaultCount}
CallTableLists ==
    {<<>>,
     <<countWordFrequency(<<Proto>>)>>,
     <<countWordFrequency(<<<<"f","o","x">>, <<"d","o","g">>, <<"f","o","x">>>>),
       countWordFrequency(<<Constructor, <<"f","o","x">>>>)>>}
CallBatches ==
    {<<>>,
     <<[QuickFox EXCEPT !.index = 1], [Failed EXCEPT !.index = 2]>>,
     <<[Constructors EXCEPT !.index = 1], [Missing EXCEPT !.index = 2],
       [DogRuns EXCEPT !.index = 3]>>}

\* The batches a caller has at hand: new ones, and those analyzed before,
\* which carry the analysis of that call.
BatchesAtHand ==
    CallBatches \cup
        {history[k].after.articles :
            k \in {j \in DOMAIN history : history[j].op = "analyzeMultipleArticles"}}
\* The analyses a caller can report: those returned before, and the analysis
\* of no article at all.
NoArticles ==
    [articles |-> <<>>, combinedFrequency |-> <<>>, topWords |-> <<>>, totalArticles |-> 0]
AnalysesAtHand ==
    {NoArticles} \cup
        {history[k].val :
            k \in {j \in DOMAIN history : /\ history[j].op = "analyzeMultipleArticles"
                                          /\ history[j].threw = ""}}

InitCalls ==
    /\ stopWords = StopWordList
    /\ text = JsUndefined
    /\ words = <<>>
    /\ articles = <<>>
    /\ call = NoCall
    /\ analysis = NoCall
    /\ report = NoCall
    /\ articleLinks = <<>>
    /\ loopIndex = 0
    /\ history = <<>>

\* No method assigns to a field of the analyzer: a call adds to the history
\* and leaves the rest as it is.
CleanTextCall ==
    /\ Len(history) < MaxCalls
    /\ \E t \in CallTexts :
          history' = Append(history,
              Made("cleanText", [text |-> t], [text |-> t], cleanText(t), ""))
    /\ UNCHANGED <<stopWords, text, words, articles, call, analysis, report,
                   articleLinks, loopIndex>>

ExtractWordsCall ==
    /\ Len(history) < MaxCalls
    /\ \E t \in CallTexts :
          history' = Append(history,
              Made("extractWords", [text |-> t], [text |-> t], extractWords(t), ""))
    /\ UNCHANGED <<stopWords, text, words, articles, call, analysis, report,
                   articleLinks, loopIndex>>

CountWordFrequencyCall ==
    /\ Len(history) < MaxCalls
    /\ \E ws \in CallWords :
          history' = Append(history,
              Made("countWordFrequency", [words |-> ws], [words |-> ws],
                   Return(countWordFrequency(ws)), ""))
    /\ UNCHANGED <<stopWords, text, words, articles, call, analysis, report,
                   articleLinks, loopIndex>>

GetTopWordsCall ==
    /\ Len(history) < MaxCalls
    /\ \E frequency \in CallTables, count \in CallCounts :
          \E top \in getTopWords(frequency, count) :
              history' = Append(history,
                  Made("getTopWords", [frequency |-> frequency, count |-> count],
                       [frequency |-> frequency, count |-> count], Return(top), ""))
    /\ UNCHANGED <<stopWords, text, words, articles, call, analysis, report,
                   articleLinks, loopIndex>>

AnalyzeTextCall ==
    /\ Len(history) < MaxCalls
    /\ \E t \in CallTexts :
          \E outcome \in analyzeText(t) :
              history' = Append(history,
                  Made("analyzeText", [text |-> t], [text |-> t], outcome, ""))
    /\ UNCHANGED <<stopWords, text, words, articles, call, analysis, report,
                   articleLinks, loopIndex>>

CombineFrequenciesCall ==
    /\ Len(history) < MaxCalls
    /\ \E frequencies \in CallTableLists :
          history' = Append(history,
              Made("combineFrequencies", [frequencies |-> frequencies],
                   [frequencies |-> frequencies],
                   Return(combineFrequencies(frequencies)), ""))
    /\ UNCHANGED <<stopWords, text, words, articles, call, analysis, report,
                   articleLinks, loopIndex>>

\* The call sets article.analysis of the articles handed in (line 130).
AnalyzeMultipleArticlesCall ==
    /\ Len(history) < MaxCalls
    /\ \E batch \in BatchesAtHand, topCount \in CallCounts :
          \E outcome \in analyzeMultipleArticles(batch, topCount) :
              history' = Append(history,
                  Made("analyzeMultipleArticles",
                       [articles |-> batch, topCount |-> topCount],
                       [articles |-> outcome.articles, topCount |-> topCount],
                       outcome, ""))
    /\ UNCHANGED <<stopWords, text, words, articles, call, analysis, report,
                   articleLinks, loopIndex>>

GenerateFileContentCall ==
    /\ Len(history) < MaxCalls
    /\ \E an \in AnalysesAtHand, now \in Clock :
          history' = Append(history,
              Made("generateFileContent",
                   [topWords |-> an.topWords, analysis |-> an],
                   [topWords |-> an.topWords, analysis |-> an],
                   Return(generateFileContent(an.topWords, an, now)), now))
    /\ UNCHANGED <<stopWords, text, words, articles, call, analysis, report,
                   articleLinks, loopIndex>>

NextCalls ==
    \/ CleanTextCall
    \/ ExtractWordsCall
    \/ CountWordFrequencyCall
    \/ GetTopWordsCall
    \/ AnalyzeTextCall
    \/ CombineFrequenciesCall
    \/ AnalyzeMultipleArticlesCall
    \/ GenerateFileContentCall

SpecCalls == InitCalls /\ [][NextCalls]_vars

(***************************************************************************)
(* Claims about calls made one after the other, checked under SpecCalls.   *)
(***************************************************************************)
\* What a call may change of its arguments: the analysis of the articles of
\* analyzeMultipleArticles, and nothing else.
ArgumentsKept(made) ==
    IF made.op = "analyzeMultipleArticles"
    THEN /\ made.after.topCount = made.args.topCount
         /\ Len(made.after.articles) = Len(made.args.articles)
         /\ \A i \in DOMAIN made.args.articles :
               Unanalyzed(made.after.articles[i]) = Unanalyzed(made.args.articles[i])
    ELSE made.after = made.args

\* analyzeMultipleArticles gives for articles analyzed before what it gives
\* for the same articles never analyzed.
AsIfNeverAnalyzed(made) ==
    made.op = "analyzeMultipleArticles" =>
        \E fresh \in analyzeMultipleArticles(
                        [i \in DOMAIN made.args.articles |->
                            Unanalyzed(made.args.articles[i])],
                        made.args.topCount) :
            /\ fresh.threw = made.threw
            /\ fresh.val = made.val
            /\ fresh.articles = made.after.articles

FrameKept ==
    /\ stopWords = StopWordList
    /\ \A k \in DOMAIN history :
          ArgumentsKept(history[k]) /\ AsIfNeverAnalyzed(history[k])

SameCall(a, b) == a.op = b.op /\ a.args = b.args
SameResult(a, b) == a.threw = b.threw /\ a.val = b.val

\* C12 as stated: after any sequence of calls the stop words are those of the
\* constructor, every call left its arguments as they were but for the
\* analysis of the articles analyzed, and two calls of one method with the
\* same arguments gave the same result.
ResultFromArgumentsAlone ==
    /\ FrameKept
    /\ \A a, b \in DOMAIN history :
          SameCall(history[a], history[b]) => SameResult(history[a], history[b])

\* C12, amended: the same, except that two calls of generateFileContent with
\* the same arguments give the same content only when made at the same time;
\* two calls of any other method with the same arguments give the same result.
ResultFromArgumentsAndClock ==
    /\ FrameKept
    /\ \A a, b \in DOMAIN history :
          (SameCall(history[a], history[b]) /\ history[a].now = history[b].now)
              => SameResult(history[a], history[b])
    /\ \A a, b \in DOMAIN history :
          (SameCall(history[a], history[b]) /\ history[a].op # "generateFileContent")
              => SameResult(history[a], history[b])

\* A batch with an article that was read and one that failed is analyzed, and
\* the same articles, now carrying their analysis, are analyzed again.
CallsWitness ==
    /\ Len(history) = 2
    /\ history[1].op = "analyzeMultipleArticles"
    /\ history[2].op = "analyzeMultipleArticles"
    /\ history[1].threw = ""
    /\ history[2].threw = ""
    /\ Len(history[1].args.articles) = 2
    /\ history[2].args.articles = history[1].after.articles
    /\ history[2].args.topCount # history[1].args.topCount
    /\ \E i \in DOMAIN history[2].args.articles :
          /\ history[2].args.articles[i].analysis # <<>>
          /\ history[2].args.articles[i].analysis[1].totalWords > 0
    /\ \E i \in DOMAIN history[2].args.articles : HasFailed(history[2].args.articles[i])
====
